---- MODULE Spec2Model ----
(***************************************************************************)
(* Model of deepl/aiohttp_http_client.py: the aiohttp adapter of the DeepL *)
(* client (AioHttpPreparedRequest, AioHttpResponse, AioHttpHttpClient).    *)
(*                                                                         *)
(* Python values are tagged records [type, val].  Dictionaries keep their  *)
(* insertion order where the code iterates over them (files, data) and are *)
(* functions from keys to values where the code only looks keys up (proxy, *)
(* headers).  The headers dictionary is an object on a heap, because the   *)
(* prepared request and the request descriptor refer to the same object.   *)
(***************************************************************************)
EXTENDS Integers, Sequences, FiniteSets, TLC

\* ------------------------------------------------------------------ bounds
NumUrls == 2
NumPayloads == 2
NumBoundaries == 2
MaxFiles == 2
MaxChunks == 2

Urls == 1..NumUrls
Payloads == 1..NumPayloads
Boundaries == 1..NumBoundaries

\* ------------------------------------------------------------ Python values
None == [type |-> "NoneType", val |-> 0]
Bool(b) == [type |-> "bool", val |-> IF b THEN 1 ELSE 0]
Str(n) == [type |-> "str", val |-> n]
Dict(d) == [type |-> "dict", val |-> d]
Callback == [type |-> "function", val |-> 0]
\* a value of a type the adapter does not expect (an int, a list, ...)
Other == [type |-> "int", val |-> 0]

\* bool(v) as Python's `if v:` evaluates it
Truthy(v) ==
    CASE v.type = "NoneType" -> FALSE
      [] v.type = "bool" -> v.val = 1
      [] v.type = "dict" -> DOMAIN v.val # {}
      [] OTHER -> TRUE

RECURSIVE SeqsUpTo(_, _)
SeqsUpTo(S, n) ==
    IF n = 0 THEN {<<>>}
    ELSE LET shorter == SeqsUpTo(S, n - 1)
         IN  shorter \cup {Append(s, x) : s \in shorter, x \in S}

\* ------------------------------------------------------- adapter construction
ProxyKeys == {"http", "https"}

\* every dictionary over the two schemes, and one with an unsupported scheme only
ProxyDicts ==
    UNION {[keys -> Urls] : keys \in SUBSET ProxyKeys}
    \cup {[k \in {"socks5"} |-> u] : u \in Urls}

\* proxy: Union[Dict, str, None], and anything else a caller may pass
ProxyConfigs ==
    {None, Other} \cup {Str(u) : u \in Urls} \cup {Dict(d) : d \in ProxyDicts}

\* verify_ssl: Union[bool, str, None]; the str is a path to CA certificates
SslConfigs == {None, Bool(TRUE), Bool(FALSE), Str(1)}

\* AioHttpHttpClient.__init__
AioHttpHttpClient(proxy, verify_ssl) ==
    [_proxy |-> proxy,
     _ssl |-> verify_ssl,
     _session |-> [ssl_context |-> IF verify_ssl.type = "str" THEN verify_ssl ELSE None,
                   trust_env |-> proxy.type # "NoneType"]]

\* ------------------------------------------------------------ proxy resolution
\* how a call ends: with a value, or with an exception
Returns(v) == [ok |-> TRUE, value |-> v, error |-> "none"]
Raises(e) == [ok |-> FALSE, value |-> None, error |-> e]

\* faulty variant: the "https" entry preferred over "http"
return_proxy_url_https_first(proxy) ==
    IF proxy.type = "str" THEN Returns(proxy)
    ELSE IF proxy.type = "dict"
         THEN IF "https" \in DOMAIN proxy.val THEN Returns(Str(proxy.val["https"]))
              ELSE IF "http" \in DOMAIN proxy.val THEN Returns(Str(proxy.val["http"]))
              ELSE Raises("ValueError")
         ELSE Raises("ValueError")

\* AioHttpHttpClient.return_proxy_url, on self._proxy
return_proxy_url(proxy) ==
    IF proxy.type = "str" THEN Returns(proxy)
    ELSE IF proxy.type = "dict"
         THEN IF "http" \in DOMAIN proxy.val THEN Returns(Str(proxy.val["http"]))
              ELSE IF "https" \in DOMAIN proxy.val THEN Returns(Str(proxy.val["https"]))
              ELSE Raises("ValueError")
         ELSE Raises("ValueError")

\* ------------------------------------------------------------- the descriptor
HeaderRef == "headers#1"

AuthHeader == <<"DeepL-Auth-Key", 0>>
JsonContentType == <<"application/json", 0>>
MultipartContentType(b) == <<"multipart/form-data", b>>

HeaderDicts ==
    {[k \in {} |-> AuthHeader],
     [k \in {"Authorization"} |-> AuthHeader],
     [k \in {"Authorization", "Content-Type"} |->
        IF k = "Authorization" THEN AuthHeader ELSE JsonContentType]}

\* an ordered dictionary with keys 1..n in insertion order
Items(contents) == [i \in 1..Len(contents) |-> <<i, contents[i]>>]

FilesValues ==
    {None} \cup {Dict(Items(c)) : c \in SeqsUpTo(Payloads, MaxFiles)}
DataValues ==
    {None} \cup {Dict(Items(c)) : c \in SeqsUpTo(Payloads, 1)}
JsonValues ==
    {None} \cup {Dict(Items(<<p>>)) : p \in Payloads}

\* HttpRequest: the generic request descriptor the adapter is handed
HttpRequest(method, url, data, json, files, stream, stream_chunks) ==
    [method |-> method, url |-> url, headers |-> HeaderRef, data |-> data,
     json |-> json, files |-> files, stream |-> stream,
     stream_chunks |-> stream_chunks]

NoRequest == HttpRequest("", "", None, None, None, FALSE, None)

\* the request descriptors whose preparation is explored in full
Requests ==
    {HttpRequest("POST", "https://example.test/x", d, j, f, FALSE, None) :
        d \in DataValues, j \in JsonValues, f \in FilesValues}

\* the request descriptors sent: one per body kind, in every response mode
SendRequests ==
    {HttpRequest("GET", "https://example.test/x", b[1], b[2], b[3], s, c) :
        b \in {<<None, Dict(Items(<<1>>)), None>>,
               <<Dict(Items(<<1>>)), None, Dict(Items(<<1>>))>>},
        s \in BOOLEAN, c \in {None, Callback}}

\* ------------------------------------------------------- request preparation
\* dict.update(other)
Update(d, other) ==
    [k \in DOMAIN d \cup DOMAIN other |-> IF k \in DOMAIN other THEN other[k] ELSE d[k]]

FilePart(item) == [name |-> item[1], filename |-> "test.txt", content |-> item[2]]
FieldPart(item) == [name |-> item[1], filename |-> "", content |-> item[2]]

\* aiohttp.MultipartWriter("form-data") with the parts appended to it
MultipartWriter(boundary, parts) ==
    [type |-> "MultipartWriter", val |-> [boundary |-> boundary, parts |-> parts]]

\* MultipartWriter.headers
WriterHeaders(writer) ==
    [k \in {"Content-Type"} |-> MultipartContentType(writer.val.boundary)]

\* MultipartWriter.write(writer) into the bytearray: every part behind its
\* delimiter, then the closing delimiter
Serialize(writer) ==
    LET parts == writer.val.parts
        b == writer.val.boundary
    IN  [type |-> "bytearray",
         val |-> [i \in 1..(Len(parts) + 1) |->
                    IF i <= Len(parts)
                    THEN [delimiter |-> b, closing |-> FALSE, part |-> <<parts[i]>>]
                    ELSE [delimiter |-> b, closing |-> TRUE, part |-> <<>>]]]

\* AioHttpPreparedRequest.__init__; boundary is the one the writer draws
AioHttpPreparedRequest(req, boundary) ==
    IF Truthy(req.files)
    THEN [data |-> MultipartWriter(boundary,
                     [i \in 1..Len(req.files.val) |-> FilePart(req.files.val[i])]
                     \o (IF Truthy(req.data)
                         THEN [i \in 1..Len(req.data.val) |-> FieldPart(req.data.val[i])]
                         ELSE <<>>)),
          json |-> None,
          headers |-> req.headers]
    ELSE [data |-> req.data, json |-> req.json, headers |-> req.headers]

\* faulty variant: the headers are merged but the writer is not replaced by the buffer
prepare_data_buffer_keeps_writer(prep, req, hp) ==
    IF Truthy(req.files)
    THEN [self |-> prep,
          heap |-> [hp EXCEPT ![prep.headers] = Update(@, WriterHeaders(prep.data))]]
    ELSE [self |-> prep, heap |-> hp]

\* AioHttpPreparedRequest.prepare_data_buffer: the prepared request and the heap
\* after the call
prepare_data_buffer(prep, req, hp) ==
    IF Truthy(req.files)
    THEN [self |-> [prep EXCEPT !.data = Serialize(prep.data)],
          heap |-> [hp EXCEPT ![prep.headers] = Update(@, WriterHeaders(prep.data))]]
    ELSE [self |-> prep, heap |-> hp]

NotPrepared == [data |-> None, json |-> None, headers |-> HeaderRef]

\* ---------------------------------------------------------------------- state
VARIABLES
    self,           \* the adapter: _proxy, _ssl, _session
    pc,             \* where the caller and send_request_async are
    request,        \* the request descriptor of the current call
    heap,           \* the dictionary objects descriptors and prepared requests share
    prepared,       \* the prepared request of the current call
    session_calls,  \* the keyword arguments of each self._session.request of the call
    response,       \* the transport's response of the current call
    callback_log,   \* the arguments of each stream_chunks invocation of the call
    result          \* what the last operation gave its caller

vars == <<self, pc, request, heap, prepared, session_calls, response,
          callback_log, result>>

NoHeaders == [k \in {} |-> AuthHeader]
NoResponse == [obtained |-> FALSE, status |-> 0, body |-> <<>>, pos |-> 0, closed |-> FALSE]
NoResult == [kind |-> "none"]

PerCallInit ==
    /\ request = NoRequest
    /\ heap = [r \in {HeaderRef} |-> NoHeaders]
    /\ prepared = NotPrepared
    /\ session_calls = <<>>
    /\ response = NoResponse
    /\ callback_log = <<>>
    /\ result = NoResult

InitWith(proxies, ssls) ==
    /\ self \in {AioHttpHttpClient(p, s) : p \in proxies, s \in ssls}
    /\ pc = "idle"
    /\ PerCallInit

\* the caller builds a request descriptor r with headers h
NewRequest(r, h) ==
    /\ pc = "idle"
    /\ request' = r
    /\ heap' = [heap EXCEPT ![r.headers] = h]
    /\ pc' = "built"
    /\ UNCHANGED <<self, prepared, session_calls, response, callback_log, result>>

\* AioHttpHttpClient.prepare_request
prepare_request ==
    /\ pc = "built"
    /\ \E boundary \in Boundaries :
          LET out == prepare_data_buffer(AioHttpPreparedRequest(request, boundary),
                                         request, heap)
          IN  /\ prepared' = out.self
              /\ heap' = out.heap
    /\ pc' = "prepared"
    /\ UNCHANGED <<self, request, session_calls, response, callback_log, result>>

\* the caller is done with the call's objects
CallEnds(at) ==
    /\ pc \in at
    /\ pc' = "idle"
    /\ request' = NoRequest
    /\ heap' = [r \in {HeaderRef} |-> NoHeaders]
    /\ prepared' = NotPrepared
    /\ session_calls' = <<>>
    /\ response' = NoResponse
    /\ callback_log' = <<>>
    /\ result' = NoResult
    /\ UNCHANGED self

\* -------------------------------------------- specification: preparation only
InitPrepare == InitWith({None}, {None})

NewRequestPrepare == \E r \in Requests, h \in HeaderDicts : NewRequest(r, h)

DropPrepared == CallEnds({"prepared"})

NextPrepare == NewRequestPrepare \/ prepare_request \/ DropPrepared

SpecPrepare == InitPrepare /\ [][NextPrepare]_vars

\* ---------------------------------------------------------- failure translation
\* the classes an exception is an instance of (aiohttp's and Python's hierarchy)
Bases(e) ==
    CASE e = "TimeoutError" ->
           {"TimeoutError", "Exception"}
      [] e = "ServerTimeoutError" ->
           {"ServerTimeoutError", "ServerConnectionError", "ClientConnectionError",
            "ClientError", "TimeoutError", "Exception"}
      [] e = "ClientConnectorError" ->
           {"ClientConnectorError", "ClientOSError", "ClientConnectionError",
            "ClientError", "Exception"}
      [] e = "ServerDisconnectedError" ->
           {"ServerDisconnectedError", "ServerConnectionError",
            "ClientConnectionError", "ClientError", "Exception"}
      [] e = "ClientPayloadError" ->
           {"ClientPayloadError", "ClientError", "Exception"}
      [] e = "ClientResponseError" ->
           {"ClientResponseError", "ClientError", "Exception"}
      [] e = "UnicodeDecodeError" ->
           {"UnicodeDecodeError", "ValueError", "Exception"}
      [] OTHER -> {e, "Exception"}

IsInstance(e, class) == class \in Bases(e)

\* what awaiting self._session.request may raise
RequestErrors ==
    {"TimeoutError", "ServerTimeoutError", "ClientConnectorError",
     "ClientResponseError", "RuntimeError"}
\* what awaiting the next chunk of the body may raise
StreamErrors == {"TimeoutError", "ServerDisconnectedError", "ClientPayloadError"}
\* what awaiting response.text() may raise
TextErrors == StreamErrors \cup {"UnicodeDecodeError"}
\* what the caller's stream_chunks callback may raise
CallbackErrors == {"RuntimeError"}

\* raise ConnectionException(message, should_retry=...) from e
ConnectionException(message, should_retry, e) ==
    [kind |-> "exception", type |-> "ConnectionException", message |-> message,
     should_retry |-> should_retry, cause |-> e]

\* faulty variant: the ClientError clause ahead of the ClientConnectionError clause
send_request_async_except_client_error_first(e) ==
    IF IsInstance(e, "TimeoutError")
    THEN ConnectionException("Request timed out", TRUE, e)
    ELSE IF IsInstance(e, "ClientError")
    THEN ConnectionException("ClientError", FALSE, e)
    ELSE IF IsInstance(e, "ClientConnectionError")
    THEN ConnectionException("ClientConnectionError", TRUE, e)
    ELSE ConnectionException("Unexpected request failure", FALSE, e)

\* the except clauses of send_request_async, in their order
send_request_async_except(e) ==
    IF IsInstance(e, "TimeoutError")
    THEN ConnectionException("Request timed out", TRUE, e)
    ELSE IF IsInstance(e, "ClientConnectionError")
    THEN ConnectionException("ClientConnectionError", TRUE, e)
    ELSE IF IsInstance(e, "ClientError")
    THEN ConnectionException("ClientError", FALSE, e)
    ELSE IF IsInstance(e, "Exception")
    THEN ConnectionException("Unexpected request failure", FALSE, e)
    ELSE [kind |-> "exception", type |-> e, message |-> "", should_retry |-> FALSE,
          cause |-> e]

\* ------------------------------------------------------------ request execution
\* faulty variant: self._ssl passed whatever its type
SslArgAlways(ssl) == ssl

\* ssl=self._ssl if type(self._ssl) is bool else None
SslArg(ssl) == IF ssl.type = "bool" THEN ssl ELSE None

\* proxy=self.return_proxy_url() if self._proxy is not None else None
ProxyArg(proxy) ==
    IF proxy.type # "NoneType" THEN return_proxy_url(proxy) ELSE Returns(None)

\* the keyword arguments of self._session.request(...)
RequestKwargs(prep, req, hp, ssl, proxy) ==
    [method |-> req.method, url |-> req.url, headers |-> hp[prep.headers],
     data |-> prep.data, json |-> prep.json, ssl |-> ssl, proxy |-> proxy]

\* faulty variant: the stream flag tested before the callback
ModeStreamFlagFirst(req) ==
    IF req.stream THEN "left to caller"
    ELSE IF Truthy(req.stream_chunks) THEN "callback"
    ELSE "text"

\* the branch of response handling a request descriptor selects
Mode(req) ==
    IF Truthy(req.stream_chunks) THEN "callback"
    ELSE IF ~req.stream THEN "text"
    ELSE "left to caller"

Statuses == {200, 503}
\* a body is the sequence of its chunks
Bodies == SeqsUpTo(Payloads, MaxChunks)
ResponseHeaders == [k \in {"Content-Type"} |-> JsonContentType]

\* response.text(): the whole body, decoded
Text(body) == [type |-> "str", val |-> body]

\* AioHttpResponse(response.status, text, response.headers, response)
AioHttpResponse(status, text, headers, raw_response) ==
    [kind |-> "response", status |-> status, text |-> text, headers |-> headers,
     _raw_response |-> raw_response]

\* send_request_async up to the await of self._session.request: the arguments
\* are evaluated, and a failure among them is translated like any other
send_request_async ==
    /\ pc = "prepared"
    /\ LET proxy == ProxyArg(self._proxy)
       IN  IF proxy.ok
           THEN /\ session_calls' = Append(session_calls,
                      RequestKwargs(prepared, request, heap, SslArg(self._ssl),
                                    proxy.value))
                /\ pc' = "requesting"
                /\ UNCHANGED result
           ELSE /\ result' = send_request_async_except(proxy.error)
                /\ pc' = "raised"
                /\ UNCHANGED session_calls
    /\ UNCHANGED <<self, request, heap, prepared, response, callback_log>>

\* faulty variant: a retry-eligible failure makes the adapter issue the request again
session_request_raises_and_retries ==
    /\ pc = "requesting"
    /\ \E e \in RequestErrors :
          LET failure == send_request_async_except(e)
          IN  IF failure.should_retry
              THEN /\ session_calls' = Append(session_calls, session_calls[1])
                   /\ UNCHANGED <<pc, result>>
              ELSE /\ result' = failure
                   /\ pc' = "raised"
                   /\ UNCHANGED session_calls
    /\ UNCHANGED <<self, request, heap, prepared, response, callback_log>>

\* await self._session.request(...) raises
session_request_raises ==
    /\ pc = "requesting"
    /\ \E e \in RequestErrors : result' = send_request_async_except(e)
    /\ pc' = "raised"
    /\ UNCHANGED <<self, request, heap, prepared, session_calls, response,
                   callback_log>>

\* await self._session.request(...) returns a response; text = None, and the
\* branch of response handling is entered
session_request_returns ==
    /\ pc = "requesting"
    /\ \E status \in Statuses, body \in Bodies :
          LET raw == [obtained |-> TRUE, status |-> status, body |-> body,
                      pos |-> 0, closed |-> FALSE]
          IN  /\ response' = raw
              /\ IF Mode(request) = "callback"
                 THEN pc' = "streaming" /\ UNCHANGED result
                 ELSE IF Mode(request) = "text"
                 THEN pc' = "reading" /\ UNCHANGED result
                 ELSE /\ pc' = "returned"
                      /\ result' = AioHttpResponse(status, None, ResponseHeaders, raw)
    /\ UNCHANGED <<self, request, heap, prepared, session_calls, callback_log>>

\* faulty variant: a chunk equal to the previous one is not handed to the callback
stream_chunks_skipping_repeats(log, chunk) ==
    IF log # <<>> /\ log[Len(log)] = chunk THEN log ELSE Append(log, chunk)

\* prepared_request.request.stream_chunks(chunk): the invocations so far
stream_chunks(log, chunk) == Append(log, chunk)

\* async for chunk, _ in chunks: the next chunk arrives and the callback takes it
iter_chunks_next ==
    /\ pc = "streaming"
    /\ response.pos < Len(response.body)
    /\ response' = [response EXCEPT !.pos = @ + 1]
    /\ callback_log' = stream_chunks(callback_log, response.body[response.pos + 1])
    /\ UNCHANGED <<self, pc, request, heap, prepared, session_calls, result>>

\* the next chunk arrives and the callback raises on it
stream_chunks_raises ==
    /\ pc = "streaming"
    /\ response.pos < Len(response.body)
    /\ response' = [response EXCEPT !.pos = @ + 1]
    /\ callback_log' = stream_chunks(callback_log, response.body[response.pos + 1])
    /\ \E e \in CallbackErrors : result' = send_request_async_except(e)
    /\ pc' = "raised"
    /\ UNCHANGED <<self, request, heap, prepared, session_calls>>

\* waiting for the next chunk raises (timeout, broken connection, bad payload)
iter_chunks_raises ==
    /\ pc = "streaming"
    /\ \E e \in StreamErrors : result' = send_request_async_except(e)
    /\ pc' = "raised"
    /\ UNCHANGED <<self, request, heap, prepared, session_calls, response,
                   callback_log>>

\* the stream is exhausted: response.close() and return
iter_chunks_ends ==
    /\ pc = "streaming"
    /\ response.pos = Len(response.body)
    /\ response' = [response EXCEPT !.closed = TRUE]
    /\ result' = AioHttpResponse(response.status, None, ResponseHeaders, response')
    /\ pc' = "returned"
    /\ UNCHANGED <<self, request, heap, prepared, session_calls, callback_log>>

\* text = await response.text() returns: response.close() and return
response_text_returns ==
    /\ pc = "reading"
    /\ response' = [response EXCEPT !.pos = Len(response.body), !.closed = TRUE]
    /\ result' = AioHttpResponse(response.status, Text(response.body),
                                 ResponseHeaders, response')
    /\ pc' = "returned"
    /\ UNCHANGED <<self, request, heap, prepared, session_calls, callback_log>>

\* text = await response.text() raises while reading or decoding the body
response_text_raises ==
    /\ pc = "reading"
    /\ \E e \in TextErrors : result' = send_request_async_except(e)
    /\ pc' = "raised"
    /\ UNCHANGED <<self, request, heap, prepared, session_calls, response,
                   callback_log>>

\* a direct call of the public method return_proxy_url
call_return_proxy_url ==
    /\ pc = "idle"
    /\ result' = [kind |-> "proxy_url", out |-> return_proxy_url(self._proxy)]
    /\ pc' = "resolved"
    /\ UNCHANGED <<self, request, heap, prepared, session_calls, response,
                   callback_log>>

\* ------------------------------------------------- specification: whole calls
Init == InitWith(ProxyConfigs, SslConfigs)

NewRequestSend ==
    \E r \in SendRequests : NewRequest(r, [k \in {"Authorization"} |-> AuthHeader])

Finish == CallEnds({"returned", "raised", "resolved"})

Next ==
    \/ NewRequestSend
    \/ prepare_request
    \/ send_request_async
    \/ session_request_raises
    \/ session_request_returns
    \/ iter_chunks_next
    \/ stream_chunks_raises
    \/ iter_chunks_raises
    \/ iter_chunks_ends
    \/ response_text_returns
    \/ response_text_raises
    \/ call_return_proxy_url
    \/ Finish

Spec == Init /\ [][Next]_vars

\* ------------------------------------------------------------------- claims
\* C1: every failure send_request_async raises is a ConnectionException, and its
\* should_retry flag is true exactly when the underlying exception is a timeout
\* or a low-level connection failure (false for any other client error and for
\* any other exception).
C1_FailureTranslation ==
    pc = "raised" =>
        /\ result.kind = "exception"
        /\ result.type = "ConnectionException"
        /\ result.should_retry =
              (IsInstance(result.cause, "TimeoutError")
               \/ IsInstance(result.cause, "ClientConnectionError"))

C1_Witness ==
    /\ pc = "raised"
    /\ Len(session_calls) = 1
    /\ result.cause = "ClientConnectorError"
    /\ result.should_retry

\* a proxy configuration of invalid shape: a mapping with neither "http" nor
\* "https", or a value that is neither None, a string nor a mapping
InvalidProxyShape(proxy) ==
    \/ proxy.type = "dict" /\ DOMAIN proxy.val \cap {"http", "https"} = {}
    \/ proxy.type \notin {"NoneType", "str", "dict"}

\* C2: a call on an adapter whose proxy configuration has an invalid shape ends
\* with a configuration error, a failure kind distinct from the connection
\* failure; connection failures and configuration errors are the only kinds.
C2_ConfigurationErrorObserved ==
    pc = "raised" =>
        /\ result.type \in {"ConnectionException", "ValueError"}
        /\ InvalidProxyShape(self._proxy) => result.type = "ValueError"

\* C3: return_proxy_url gives the string itself for a string, the "https" entry
\* for a mapping with only "https", the "http" entry for a mapping with "http"
\* (alone or with "https"), and fails with a configuration error for a mapping
\* with neither key and for anything that is neither a string nor a mapping.
C3_ProxyResolution ==
    pc = "resolved" =>
        LET proxy == self._proxy
            out == result.out
            schemes == IF proxy.type = "dict"
                       THEN DOMAIN proxy.val \cap {"http", "https"} ELSE {}
        IN  CASE proxy.type = "str" ->
                   out.ok /\ out.value = proxy
              [] proxy.type = "dict" /\ schemes = {"https"} ->
                   out.ok /\ out.value = Str(proxy.val["https"])
              [] proxy.type = "dict" /\ schemes = {"http"} ->
                   out.ok /\ out.value = Str(proxy.val["http"])
              [] proxy.type = "dict" /\ schemes = {"http", "https"} ->
                   out.ok /\ out.value = Str(proxy.val["http"])
              [] OTHER ->
                   ~out.ok /\ out.error = "ValueError"

C3_Witness ==
    /\ pc = "resolved"
    /\ self._proxy.type = "dict"
    /\ DOMAIN self._proxy.val = {"http", "https"}
    /\ self._proxy.val["http"] # self._proxy.val["https"]
    /\ result.out.value = Str(self._proxy.val["http"])

HasFileAttachment(req) == req.files.type = "dict" /\ Len(req.files.val) >= 1

\* C4: with at least one file attachment the prepared body is the serialized
\* multipart buffer (a part per file and per data field, then the closing
\* delimiter), the prepared JSON is empty and the prepared headers carry the
\* content-type of that multipart encoding; with no file attachment the
\* prepared body is the descriptor's data and the prepared JSON its JSON.
C4_PreparedBody ==
    pc = "prepared" =>
        IF HasFileAttachment(request)
        THEN /\ prepared.data.type = "bytearray"
             /\ Len(prepared.data.val) =
                   Len(request.files.val)
                   + (IF request.data.type = "dict" THEN Len(request.data.val) ELSE 0)
                   + 1
             /\ prepared.json.type = "NoneType"
             /\ "Content-Type" \in DOMAIN heap[prepared.headers]
             /\ heap[prepared.headers]["Content-Type"] =
                   MultipartContentType(prepared.data.val[1].delimiter)
        ELSE /\ prepared.data = request.data
             /\ prepared.json = request.json

C4_Witness ==
    /\ pc = "prepared"
    /\ HasFileAttachment(request)
    /\ Len(request.files.val) = 2
    /\ Truthy(request.data)
    /\ Truthy(request.json)
    /\ prepared.data.type = "bytearray"
    /\ Len(prepared.data.val) = 4

\* C5: a call with a streaming callback that returns a response has invoked the
\* callback once per chunk of the body, in arrival order, and the response's
\* text is unset.
C5_CallbackPerChunk ==
    (pc = "returned" /\ Truthy(request.stream_chunks)) =>
        /\ callback_log = response.body
        /\ result.text.type = "NoneType"

C5_Witness ==
    /\ pc = "returned"
    /\ Truthy(request.stream_chunks)
    /\ Len(callback_log) = 2
    /\ callback_log[1] = callback_log[2]

\* C6: a returned call has handled the response in exactly one mode: with a
\* callback (also when the stream flag is set) or with neither callback nor
\* flag, the body was consumed to its end and the connection released before
\* the return; with the flag and no callback, nothing was read, no callback
\* ran and the connection was not released.  The connection is never released
\* before the body is consumed.
C6_ModesAndRelease ==
    /\ response.closed => response.pos = Len(response.body)
    /\ pc = "returned" =>
          IF Truthy(request.stream_chunks)
          THEN /\ response.closed /\ result._raw_response.closed
               /\ response.pos = Len(response.body)
               /\ callback_log = response.body
               /\ result.text.type = "NoneType"
          ELSE IF ~request.stream
          THEN /\ response.closed /\ result._raw_response.closed
               /\ response.pos = Len(response.body)
               /\ callback_log = <<>>
               /\ result.text = Text(response.body)
          ELSE /\ ~response.closed
               /\ response.pos = 0
               /\ callback_log = <<>>
               /\ result.text.type = "NoneType"

C6_Witness ==
    /\ pc = "returned"
    /\ Truthy(request.stream_chunks)
    /\ request.stream
    /\ response.body # <<>>
    /\ response.closed

\* C7: every request on the session carries ssl = verify_ssl when verify_ssl is
\* a boolean and no ssl argument otherwise (also for a CA path), and carries
\* the resolved proxy URL when a proxy is configured and no proxy otherwise.
C7_TlsAndProxyArguments ==
    \A i \in DOMAIN session_calls :
        /\ session_calls[i].ssl =
              (IF self._ssl.type = "bool" THEN self._ssl ELSE None)
        /\ session_calls[i].proxy =
              (CASE self._proxy.type = "NoneType" -> None
                 [] self._proxy.type = "str" -> self._proxy
                 [] self._proxy.type = "dict" /\ "http" \in DOMAIN self._proxy.val ->
                      Str(self._proxy.val["http"])
                 [] OTHER -> Str(self._proxy.val["https"]))

C7_Witness ==
    /\ Len(session_calls) = 1
    /\ self._ssl = Bool(FALSE)
    /\ self._proxy = None
    /\ session_calls[1].ssl = Bool(FALSE)
    /\ session_calls[1].proxy = None

\* C8: a call issues at most one request on the session, whatever its outcome.
C8_NoRetry ==
    /\ Len(session_calls) <= 1
    /\ pc \in {"requesting", "streaming", "reading", "returned"} =>
          Len(session_calls) = 1

C8_Witness ==
    /\ pc = "raised"
    /\ result.should_retry
    /\ response = NoResponse
    /\ Len(session_calls) = 1

\* C9: with a callback, or with neither callback nor stream flag, a call that
\* obtained a response has released the connection when it ends, by a return
\* or by a raised failure.
C9_ReleasedWhenCallEnds ==
    (/\ pc \in {"returned", "raised"}
     /\ response.obtained
     /\ Truthy(request.stream_chunks) \/ ~request.stream)
        => response.closed

\* C10: prepare_request leaves the descriptor as it was: its headers, data,
\* JSON and files are the same after the call as before.
C10_DescriptorUnchanged ==
    [][(pc = "built" /\ pc' = "prepared") =>
          /\ request' = request
          /\ heap'[request.headers] = heap[request.headers]]_vars

====
